---------------------------- MODULE Spec2Model ----------------------------
(***************************************************************************)
(* A model of the modpack build scripts (scripts/build_extensions.py and   *)
(* scripts/utils.py): the merge of extension descriptors, the planning of  *)
(* install tasks, the retrying executor add_mod_to_version, the worker     *)
(* pool of add_mods_to_versions with its failure report, and the flows of  *)
(* utils.py that run the external tool in the process-wide current         *)
(* directory, and build_extensions.main, which runs the phases of a build  *)
(* in order.                                                               *)
(*                                                                         *)
(* The worker pool of utils.install_resources is the same                  *)
(* ThreadPoolExecutor / as_completed machinery as the one of               *)
(* add_mods_to_versions, and its state is kept in the same variables:      *)
(* currency, tasks (the resources to install), apc, futures, early,        *)
(* yieldq, done_order, completed (have_done), progress, failed             *)
(* (failed_mods) and report (the value returned).                          *)
(*                                                                         *)
(* Python dicts keep insertion order; a dict is modelled as a sequence of  *)
(* <<key, value>> pairs with pairwise distinct keys.  A mod entry of a     *)
(* descriptor (a TOML table) is only ever looked up by key, and is a       *)
(* function from its keys.                                                 *)
(***************************************************************************)
EXTENDS Naturals, Sequences, FiniteSets, TLC

VARIABLES
    extensions,   \* merge_mods / main: the parsed descriptors, in input order
    merged,       \* the value returned by merge_mods (set when mpc = "merged")
    merged_again, \* the value a second merge_mods call on the same list returned
    mpc,          \* position of the merge driver: "start" | "merged"
    call,         \* add_mod_to_version: the frame of the call under test
    path_is_dir,  \* add_mod_to_version: os.path.isdir(version_path)
    outcomes,     \* add_mod_to_version: how its subprocess.run calls ended
    dirs,         \* the directories that exist under the build directory
    currency,     \* add_mods_to_versions: the currency argument
    tasks,        \* add_mods_to_versions: the planned tasks (set by Plan)
    apc,          \* add_mods_to_versions: position of the calling thread
    futures,      \* one future per submitted task: [st, call]
    early,        \* as_completed: the futures found finished when it started
    yieldq,       \* as_completed: the futures it will yield next, in order
    done_order,   \* the tasks in the order their futures finished
    completed,    \* add_mods_to_versions: the completed counter
    progress,     \* the progress lines printed: <<completed, task, success>>
    failed,       \* add_mods_to_versions: the failed dict
    report,       \* the value add_mods_to_versions returned (set when apc = "returned")
    flow,         \* utils.py: the function driven: "update" | "export" | "sync"
    cwd,          \* the current directory of the process (os.getcwd())
    original_dir, \* the local original_dir of the function that changed cwd
    paths,        \* update_modpacks / export_modpacks: the paths argument
    idx,          \* update_modpacks / export_modpacks: the loop position
    children,     \* external invocations in flight, each with the cwd it got
    ulog,         \* update / export: <<path, outcome>> of the invocations done
    old_packs,    \* export: the paths that hold an exported pack file
    target_is_dir,\* install_resources: os.path.isdir(version_path)
    resource_list,\* install_resources: the resource_list argument
    present,      \* install_resources: the files of the target resource folder
    toml_paths,   \* main: args.extensions, each path with the file behind it
    mainpc,       \* main: the position of build_extensions.main
    mi,           \* main: the position of the loop that is running
    warnings,     \* parse_extensions_toml: the inputs it warned about
    effects,      \* main: what it did to the file system, in order
    version_paths,\* export_modpacks: the version directories it found
    exporting,    \* export_modpacks: the paths whose export is in flight
    failed_exports\* export_modpacks: its failed list

mergeVars == <<extensions, merged, merged_again, mpc>>

retryVars == <<call, path_is_dir, outcomes>>

poolVars == <<dirs, currency, tasks, apc, futures, early, yieldq, done_order,
              completed, progress, failed, report>>

utilsVars == <<flow, cwd, original_dir, paths, idx, children, ulog, old_packs,
               target_is_dir, resource_list, present>>

mainVars == <<toml_paths, mainpc, mi, warnings, effects, version_paths,
              exporting, failed_exports>>

vars == <<mergeVars, retryVars, poolVars, utilsVars, mainVars>>

\* The value of a variable the code has not assigned yet.
NotYet == <<>>

-----------------------------------------------------------------------------
(* Ordered dicts.                                                          *)

EmptyDict == <<>>

DictKeys(d) == {d[i][1] : i \in DOMAIN d}

DictHas(d, k) == k \in DictKeys(d)

DictGet(d, k) == d[CHOOSE i \in DOMAIN d : d[i][1] = k][2]

\* d.get(k, default)
DictGetOr(d, k, default) == IF DictHas(d, k) THEN DictGet(d, k) ELSE default

\* d[k] = v: an existing key keeps its position, a new key goes last.
DictPut(d, k, v) ==
    IF DictHas(d, k)
    THEN [i \in DOMAIN d |-> IF d[i][1] = k THEN <<k, v>> ELSE d[i]]
    ELSE Append(d, <<k, v>>)

\* list(d.values())
DictValues(d) == [i \in DOMAIN d |-> d[i][2]]

-----------------------------------------------------------------------------
(* merge_mods.                                                             *)

\* A loader list that also knows quilt.
LoaderListWithQuilt == <<"fabric", "forge", "neoforge", "quilt">>

\* The loaders merge_mods and add_mods_to_versions look for, in loop order.
LoaderList == <<"fabric", "forge", "neoforge">>

\* mod.get("name", "Unnamed")
ModName(mod) == IF "name" \in DOMAIN mod THEN mod["name"] ELSE "Unnamed"

\* Lines 142-152: the upsert of one (mod_name, loader, version) key.
MergeFirstWins(mods_dict, mod_name, loader, version, url) ==
    LET key == <<mod_name, loader, version>>
    IN  IF DictHas(mods_dict, key)
        THEN mods_dict
        ELSE DictPut(mods_dict, key,
                     [name |-> mod_name, loader |-> loader,
                      version |-> version, url |-> url])

MergePerMod(mods_dict, mod_name, loader, version, url) ==
    LET key  == <<mod_name, loader, version>>
        kept == SelectSeq(mods_dict, LAMBDA p : p[1][1] # mod_name
                                                 \/ p[1] = key)
    IN  DictPut(kept, key,
                [name |-> mod_name, loader |-> loader,
                 version |-> version, url |-> url])

\* An upsert that moves an overridden key to the end of the dict.
MergeOverrideLast(mods_dict, mod_name, loader, version, url) ==
    LET key  == <<mod_name, loader, version>>
        rest == SelectSeq(mods_dict, LAMBDA p : p[1] # key)
    IN  Append(rest, <<key, [name |-> mod_name, loader |-> loader,
                             version |-> version, url |-> url]>>)

MergeUpsert(mods_dict, mod_name, loader, version, url) ==
    LET key == <<mod_name, loader, version>>
    IN  IF DictHas(mods_dict, key)
        THEN DictPut(mods_dict, key,
                     [DictGet(mods_dict, key) EXCEPT !.url = url])
        ELSE DictPut(mods_dict, key,
                     [name |-> mod_name, loader |-> loader,
                      version |-> version, url |-> url])

\* Lines 137-152: for version, url in loader_config.items()
RECURSIVE MergeItems(_, _, _, _)
MergeItems(mods_dict, mod_name, loader, items) ==
    IF items = <<>>
    THEN mods_dict
    ELSE MergeItems(MergeUpsert(mods_dict, mod_name, loader,
                                Head(items)[1], Head(items)[2]),
                    mod_name, loader, Tail(items))

\* Lines 132-152: for loader in ["fabric", "forge", "neoforge"]
RECURSIVE MergeLoaders(_, _, _)
MergeLoaders(mods_dict, mod, loaders) ==
    IF loaders = <<>>
    THEN mods_dict
    ELSE LET loader == Head(loaders)
         IN  IF loader \notin DOMAIN mod
             THEN MergeLoaders(mods_dict, mod, Tail(loaders))
             ELSE MergeLoaders(MergeItems(mods_dict, ModName(mod), loader,
                                          mod[loader]),
                               mod, Tail(loaders))

\* Lines 128-152: for mod in extension["mods"]
RECURSIVE MergeEntries(_, _)
MergeEntries(mods_dict, mods) ==
    IF mods = <<>>
    THEN mods_dict
    ELSE MergeEntries(MergeLoaders(mods_dict, Head(mods), LoaderList),
                      Tail(mods))

\* Lines 124-152: for extension in extensions
RECURSIVE MergeExtensions(_, _)
MergeExtensions(mods_dict, exts) ==
    IF exts = <<>>
    THEN mods_dict
    ELSE MergeExtensions(MergeEntries(mods_dict, Head(exts).mods),
                         Tail(exts))

\* Lines 156-165: regroup into {mod_name: {"name": mod_name, loader: {version: url}}}.
\* A result entry is the ordered dict of its keys: "name" first, then its loaders.
RECURSIVE Regroup(_, _)
Regroup(result_mods, items) ==
    IF items = <<>>
    THEN result_mods
    ELSE LET mod_info == Head(items)[2]
             mod_name == Head(items)[1][1]
             loader   == Head(items)[1][2]
             version  == Head(items)[1][3]
             r1 == IF DictHas(result_mods, mod_name)
                   THEN result_mods
                   ELSE DictPut(result_mods, mod_name,
                                DictPut(EmptyDict, "name", mod_name))
             e1 == DictGet(r1, mod_name)
             e2 == IF DictHas(e1, loader)
                   THEN e1
                   ELSE DictPut(e1, loader, EmptyDict)
             e3 == DictPut(e2, loader,
                           DictPut(DictGet(e2, loader), version, mod_info.url))
         IN  Regroup(DictPut(r1, mod_name, e3), Tail(items))

\* Lines 110-168.
merge_mods(exts) ==
    DictValues(Regroup(EmptyDict, MergeExtensions(EmptyDict, exts)))

\* A merge that empties the mod lists it has read.
ArgumentDrained(exts) == [k \in DOMAIN exts |-> [exts[k] EXCEPT !.mods = <<>>]]

\* Lines 128-152: merge_mods only reads its argument (it iterates, and calls
\* get and items); the descriptors after the call.
ArgumentAfter(exts) == exts

-----------------------------------------------------------------------------
(* add_mod_to_version: one call, as a frame that its steps transform.      *)
(*   pc       "entry"    called, line 359 not yet passed                   *)
(*            "run"      subprocess.run of attempt `attempt` is in flight  *)
(*            "sleep"    time.sleep(delay) before the next attempt         *)
(*            "returned" returned `result` = <<success, attempts>>         *)
(*            "raised"   an exception left the function                    *)
(*   attempt  the loop variable (0-based)                                  *)
(*   invoked  the subprocess.run calls made so far                         *)
(*   slept    the delays slept so far, in order                            *)

DefaultMaxRetries == 3

retry_delays == <<1, 3, 9>>

\* How one subprocess.run can end: exit code 0, another exit code, a raised
\* process error, subprocess.TimeoutExpired.
Outcomes == {"zero", "nonzero", "error", "timeout"}

NoResult == <<>>

NewCall(max_retries) ==
    [pc |-> "entry", max_retries |-> max_retries, attempt |-> 0,
     invoked |-> 0, slept |-> <<>>, result |-> NoResult]

\* Lines 383 and 389: if attempt < max_retries - 1
RetryAfterLastToo(attempt, max_retries) == attempt < max_retries

MoreAttempts(attempt, max_retries) == attempt + 1 < max_retries

\* The for statement takes its next value (line 368): the next attempt starts,
\* or the range is exhausted and line 393 returns.
NextAttempt(f, attempt) ==
    IF attempt < f.max_retries
    THEN [f EXCEPT !.pc = "run", !.attempt = attempt,
                   !.invoked = f.invoked + 1]
    ELSE [f EXCEPT !.pc = "returned",
                   !.result = <<FALSE, f.max_retries>>]

\* Lines 359-368.
EnterUnchecked(f, isdir) == NextAttempt(f, 0)

Enter(f, isdir) ==
    IF ~isdir
    THEN [f EXCEPT !.pc = "returned", !.result = <<FALSE, 0>>]
    ELSE NextAttempt(f, 0)

\* An attempt whose exception nothing catches.
OnExceptionUncaught(f) == [f EXCEPT !.pc = "raised"]

\* Lines 387-391: the except clause.  retry_delays[attempt] raises IndexError
\* past the table, and nothing catches it there.
OnException(f) ==
    IF MoreAttempts(f.attempt, f.max_retries)
    THEN IF f.attempt + 1 \in DOMAIN retry_delays
         THEN [f EXCEPT !.pc = "sleep",
                        !.slept = Append(f.slept, retry_delays[f.attempt + 1])]
         ELSE [f EXCEPT !.pc = "raised"]
    ELSE NextAttempt(f, f.attempt + 1)

\* Lines 379-385: subprocess.run returned.  An IndexError of line 384 is raised
\* inside the try block and lands in the except clause.
OnReturnOffByOne(f, returncode) ==
    IF returncode = 0
    THEN [f EXCEPT !.pc = "returned", !.result = <<TRUE, f.attempt>>]
    ELSE OnException(f)

OnReturn(f, returncode) ==
    IF returncode = 0
    THEN [f EXCEPT !.pc = "returned", !.result = <<TRUE, f.attempt + 1>>]
    ELSE IF MoreAttempts(f.attempt, f.max_retries)
         THEN IF f.attempt + 1 \in DOMAIN retry_delays
              THEN [f EXCEPT !.pc = "sleep",
                             !.slept = Append(f.slept,
                                              retry_delays[f.attempt + 1])]
              ELSE OnException(f)
         ELSE NextAttempt(f, f.attempt + 1)

\* Lines 370-391: the attempt in flight ends with outcome o.
Finish(f, o) ==
    CASE o = "zero"    -> OnReturn(f, 0)
      [] o = "nonzero" -> OnReturn(f, 1)
      [] OTHER         -> OnException(f)

\* time.sleep returns and the loop goes on (lines 385/391, then 368).
Wake(f) == NextAttempt(f, f.attempt + 1)

-----------------------------------------------------------------------------
(* add_mods_to_versions: planning.                                         *)

\* A URL is the sequence of its pieces of text; str.lower() on a piece.
Lower(piece) ==
    CASE piece = "CurseForge.com" -> "curseforge.com"
      [] piece = "Modrinth.com"   -> "modrinth.com"
      [] OTHER                    -> piece

\* signature in url.lower()
UrlContains(url, signature) ==
    \E i \in DOMAIN url : Lower(url[i]) = signature

\* Lines 171-187.
detect_url_platform(url) ==
    IF UrlContains(url, "modrinth.com") THEN "modrinth"
    ELSE IF UrlContains(url, "curseforge.com") THEN "curseforge"
    ELSE "modrinth"

\* os.path.join of two plain components.
PathJoin(a, b) == a \o "/" \o b

None == "None"

\* Lines 330-343: fs is the set of the paths that are directories.
VersionPathUnchecked(fs, base_dir, loader, version) ==
    PathJoin(PathJoin(base_dir, loader), version)

get_version_path(fs, base_dir, loader, version) ==
    LET path == PathJoin(PathJoin(base_dir, loader), version)
    IN  IF path \in fs THEN path ELSE None

\* Lines 414-427: for version, url in loader_config.items()
RECURSIVE PlanItems(_, _, _, _, _, _)
PlanItems(fs, base_dir, acc, mod_name, loader, items) ==
    IF items = <<>>
    THEN acc
    ELSE LET version == Head(items)[1]
             url == Head(items)[2]
             version_path == get_version_path(fs, base_dir, loader, version)
             task == [name |-> mod_name, loader |-> loader,
                      version |-> version, url |-> url,
                      platform |-> detect_url_platform(url),
                      version_path |-> version_path]
         IN  PlanItems(fs, base_dir,
                       IF version_path # None THEN Append(acc, task) ELSE acc,
                       mod_name, loader, Tail(items))

\* Lines 412-427: for loader in ["fabric", "forge", "neoforge"]
RECURSIVE PlanLoaders(_, _, _, _, _)
PlanLoaders(fs, base_dir, acc, mod, loaders) ==
    IF loaders = <<>>
    THEN acc
    ELSE PlanLoaders(fs, base_dir,
                     PlanItems(fs, base_dir, acc,
                               DictGetOr(mod, "name", "Unnamed"),
                               Head(loaders),
                               DictGetOr(mod, Head(loaders), EmptyDict)),
                     mod, Tail(loaders))

\* Lines 409-427: for mod in mods
RECURSIVE PlanTasks(_, _, _, _)
PlanTasks(fs, base_dir, acc, mods) ==
    IF mods = <<>>
    THEN acc
    ELSE PlanTasks(fs, base_dir,
                   PlanLoaders(fs, base_dir, acc, Head(mods), LoaderList),
                   Tail(mods))

\* Line 466: key = f"{task['loader']}/{task['version']}"
FailureKey(task) == task.loader \o "/" \o task.version

\* Lines 465-467: failed[key].append(task["name"]) on a defaultdict(list).
RecordFailureFront(d, task) ==
    LET key == FailureKey(task)
    IN  <<<<key, Append(DictGetOr(d, key, <<>>), task.name)>>>>
        \o SelectSeq(d, LAMBDA p : p[1] # key)

\* An append that starts from an empty list: the names recorded before are lost.
RecordFailureLost(d, task) == DictPut(d, FailureKey(task), <<task.name>>)

RecordFailure(d, task) ==
    LET key == FailureKey(task)
    IN  DictPut(d, key, Append(DictGetOr(d, key, <<>>), task.name))

AfterOutcomeAlways(d, task, success) == RecordFailure(d, task)

\* Lines 465-467.
AfterOutcome(d, task, success) ==
    IF ~success THEN RecordFailure(d, task) ELSE d

-----------------------------------------------------------------------------
(* add_mods_to_versions: the worker pool and the collecting loop.          *)
(*                                                                         *)
(* A future is [st, call]: st is "queued" (submitted, no worker has taken  *)
(* it), "running" (a worker runs install_task: call is the frame of its    *)
(* add_mod_to_version) or "finished" (the result or the exception is set). *)
(* apc is "plan", "submit" (the dict comprehension of line 447),           *)
(* "collect" (the as_completed loop), "returned" or "raised".              *)

\* The futures in state st.
InState(fs, st) == {i \in DOMAIN fs : fs[i].st = st}

\* The invocations of the external tool in flight.
InFlight(fs) == {i \in DOMAIN fs : fs[i].st = "running" /\ fs[i].call.pc = "run"}

\* The orders in which a set can be listed.
Orders(S) ==
    {p \in [1..Cardinality(S) -> S] : \A i, j \in DOMAIN p : p[i] = p[j] => i = j}

\* The worker's function returned or raised: the future is finished.
Ended(c) == c.pc \in {"returned", "raised"}

\* A future after its call moved to frame c.
FutureAt(c) == [st |-> IF Ended(c) THEN "finished" ELSE "running", call |-> c]

-----------------------------------------------------------------------------
(* utils.py: the helpers of install_resources, update_modpacks and         *)
(* export_modpacks.  A file name is the sequence of its stem and its       *)
(* extension.                                                              *)

\* filename.endswith(suffix)
EndsWith(filename, suffix) ==
    filename # <<>> /\ filename[Len(filename)] = suffix

\* Lines 121-134: the name without ".pw.toml", or without its extension.
get_spec_from_filename(filename) ==
    IF EndsWith(filename, ".pw.toml")
    THEN SubSeq(filename, 1, Len(filename) - 1)
    ELSE SubSeq(filename, 1, Len(filename) - 1)

\* Lines 137-157: the resource files among the files of the folder (a missing
\* folder has no files).
get_resources(listing) ==
    {f \in listing : \/ EndsWith(f, ".jar")
                     \/ EndsWith(f, ".pw.toml")
                     \/ EndsWith(f, ".zip")}

\* A plan that keeps every resource.
KeepAll(resources, already) == resources

\* Lines 198-199: the resources not yet in the target.
Dedupe(resources, already) == SelectSeq(resources, LAMBDA m : m \notin already)

\* A pool with a thread for every resource.
WorkerPerItem(n, len) == len

\* Line 229: max_workers = min(currency, len(resource_list))
max_workers(n, len) == IF n < len THEN n ELSE len

\* install_single_mod returns None for a success.
Installed == <<>>

\* Lines 209-210: only a .pw.toml resource is installed through the tool.
NeedsTool(mod) == EndsWith(mod, ".pw.toml")

\* Lines 219-223: the value install_single_mod returns after the invocation.
InstallResult(mod, o) == IF o = "zero" THEN Installed ELSE mod

\* subprocess.run (line 114) and os.system (line 51) return when the child
\* has exited: the caller waits.
AfterSpawnNoWait == "loop"

AfterSpawn == "wait"

\* A child process started now: it runs in the current directory of the process.
Spawned(id, dir) == [id |-> id, cwd |-> dir]


\* A finally clause that leaves the directory where the body put it.
StaysWhereLeft(saved, current) == current

\* The finally clauses (lines 53, 116, 247): os.chdir(original_dir).
RestoredDirectory(saved, current) == saved
-----------------------------------------------------------------------------
(* build_extensions.py: parse_extensions_toml and the helpers of main.     *)
(* An input of parse_extensions_toml is a path with the file behind it:    *)
(*   kind "missing"      os.path.isfile(path) is false                     *)
(*        "unparseable"  open or tomllib.load raises                       *)
(*        "valid"        a TOML file; metadata is its [extensions] table   *)
(*        "odd_metadata" a TOML file whose key `extensions` is no table    *)

\* Lines 75-83: the extension appended for a file that tomllib loaded (kind
\* tells whether its metadata is a table).
ExtensionOf(input) ==
    [metadata |-> input.metadata, mods |-> input.mods,
     source_file |-> input.path, kind |-> input.kind]

\* An input that reaches extensions.append (line 82).
LoadsAlways(input) == TRUE

Loads(input) == input.kind \in {"valid", "odd_metadata"}

\* An input that gets a warning or an error line: line 71 for a missing file,
\* line 86 for an exception in the try block, which the print of line 83
\* raises when metadata has no get.
Warns(input) == input.kind # "valid"

\* Lines 56-88: the list returned.
RECURSIVE parse_extensions_toml(_)
parse_extensions_toml(inputs) ==
    IF inputs = <<>>
    THEN <<>>
    ELSE (IF Loads(Head(inputs)) THEN <<ExtensionOf(Head(inputs))>> ELSE <<>>)
             \o parse_extensions_toml(Tail(inputs))

\* Lines 56-88: the paths of the warning and error lines printed, in order.
ParseWarnings(inputs) ==
    LET warned == SelectSeq(inputs, Warns)
    IN  [k \in DOMAIN warned |-> warned[k].path]

\* Lines 102-103 and 543-545: ext["metadata"].get raises for a metadata that
\* is no table.
NameRaises(exts) == \E k \in DOMAIN exts : exts[k].kind = "odd_metadata"

\* Lines 536-538: if not extensions: return
NeverFatal(exts) == FALSE

Fatal(exts) == exts = <<>>

-----------------------------------------------------------------------------
(* The parts of the model a specification does not exercise stay idle.     *)

MergeIdle ==
    /\ extensions = <<>> /\ merged = NotYet /\ merged_again = NotYet
    /\ mpc = "idle"

RetryIdle == call = NoResult /\ path_is_dir = FALSE /\ outcomes = <<>>

PoolIdle ==
    /\ dirs = {} /\ currency = 0 /\ tasks = NotYet /\ apc = "idle"
    /\ futures = <<>> /\ early = {} /\ yieldq = <<>> /\ done_order = <<>>
    /\ completed = 0 /\ progress = <<>> /\ failed = <<>> /\ report = NotYet

UtilsIdle ==
    /\ flow = "idle" /\ cwd = "" /\ original_dir = "" /\ paths = <<>>
    /\ idx = 0 /\ children = {} /\ ulog = <<>> /\ old_packs = {}
    /\ target_is_dir = FALSE /\ resource_list = <<>> /\ present = {}

MainIdle ==
    /\ toml_paths = <<>> /\ mainpc = "idle" /\ mi = 0 /\ warnings = <<>>
    /\ effects = <<>> /\ version_paths = <<>> /\ exporting = {}
    /\ failed_exports = <<>>

-----------------------------------------------------------------------------
(* The merge driver: the descriptors are drawn from a bounded universe and *)
(* merge_mods is applied to them.                                          *)

MaxExtensions == 2   \* descriptors given on the command line
MaxEntries == 3      \* [[mod]] tables in all the descriptors together

U1 == <<"https://", "modrinth.com", "/mod/a">>
U2 == <<"https://www.", "CurseForge.com", "/minecraft/mc-mods/b">>
U3 == <<"https://", "example.org", "/c.jar">>

\* The loader tables a [[mod]] entry of the universe may carry.
ConfigUniverse ==
    { <<>>,
      "fabric" :> <<<<"1.20.1", U1>>>>,
      "forge" :> <<<<"1.19.2", U1>>>>,
      ("fabric" :> <<<<"1.20.1", U2>>, <<"1.19.2", U1>>>>)
          @@ ("quilt" :> <<<<"1.20.1", U1>>>>),
      ("neoforge" :> <<<<"1.20.1", U3>>>>)
          @@ ("fabric" :> <<<<"1.19.2", U2>>>>),
      "quilt" :> <<<<"1.20.1", U2>>>> }

NameUniverse == { <<>>, "name" :> "Sodium" }

EntryUniverse == { n @@ c : n \in NameUniverse, c \in ConfigUniverse }

\* The sequences over S of length n.
SeqsOfLen(S, n) == [1..n -> S]

\* The ways to cut a sequence of n entries into k descriptors: the k sizes.
\* A descriptor without any [[mod]] table is drawn only as the single one.
Cuts(n, k) == [1..k -> (IF k = 1 THEN 0 ELSE 1)..n]

RECURSIVE SumTo(_, _)
SumTo(c, i) == IF i = 0 THEN 0 ELSE c[i] + SumTo(c, i - 1)

\* The descriptors whose mods are the entries es cut by the sizes c.
CutInto(es, c) ==
    [i \in DOMAIN c |->
        [mods |-> SubSeq(es, SumTo(c, i - 1) + 1, SumTo(c, i))]]

InitMerge ==
    /\ \E n \in 0..MaxEntries, k \in 0..MaxExtensions :
         \E es \in SeqsOfLen(EntryUniverse, n), c \in Cuts(n, k) :
            /\ SumTo(c, k) = n
            /\ extensions = CutInto(es, c)
    /\ merged = NotYet
    /\ merged_again = NotYet
    /\ mpc = "start"
    /\ RetryIdle
    /\ PoolIdle
    /\ UtilsIdle
    /\ MainIdle

\* main, line 563: merged_mods = merge_mods(extensions)
MergeCall ==
    /\ mpc = "start"
    /\ merged' = merge_mods(extensions)
    /\ mpc' = "merged"
    /\ extensions' = ArgumentAfter(extensions)
    /\ UNCHANGED <<mainVars, utilsVars, merged_again, retryVars, poolVars>>

NextMerge == MergeCall

SpecMerge == InitMerge /\ [][NextMerge]_vars

-----------------------------------------------------------------------------
(* merge_mods called twice on the same list of descriptors.                *)

\* A second call merge_mods(extensions), on the list as the first call left
\* it; the result of the first call is a list of its own (line 168).
MergeAgain ==
    /\ mpc = "merged"
    /\ merged_again' = merge_mods(extensions)
    /\ extensions' = ArgumentAfter(extensions)
    /\ mpc' = "merged_twice"
    /\ UNCHANGED <<mainVars, utilsVars, merged, retryVars, poolVars>>

NextMergeTwice == MergeCall \/ MergeAgain

SpecMergeTwice == InitMerge /\ [][NextMergeTwice]_vars

-----------------------------------------------------------------------------
(* The executor driver: add_mod_to_version is called once, on a path that  *)
(* is a directory or not, with a retry limit, and each of its invocations  *)
(* of the external tool ends in one of the four ways.                      *)

MaxRetriesArg == 5   \* the largest max_retries passed

InitRetry ==
    /\ MergeIdle
    /\ PoolIdle
    /\ UtilsIdle
    /\ MainIdle
    /\ path_is_dir \in BOOLEAN
    /\ \E m \in 1..MaxRetriesArg : call = NewCall(m)
    /\ outcomes = <<>>

\* Lines 359-370: the check of the directory, then the first attempt.
CallEnters ==
    /\ call.pc = "entry"
    /\ call' = Enter(call, path_is_dir)
    /\ UNCHANGED <<mainVars, utilsVars, path_is_dir, outcomes, mergeVars, poolVars>>

\* Lines 370-391: the invocation in flight ends.
RunEnds ==
    /\ call.pc = "run"
    /\ \E o \in Outcomes :
         /\ call' = Finish(call, o)
         /\ outcomes' = Append(outcomes, o)
    /\ UNCHANGED <<mainVars, utilsVars, path_is_dir, mergeVars, poolVars>>

\* Lines 385/391: the backoff sleep ends.
SleepEnds ==
    /\ call.pc = "sleep"
    /\ call' = Wake(call)
    /\ UNCHANGED <<mainVars, utilsVars, path_is_dir, outcomes, mergeVars, poolVars>>

NextRetry == CallEnters \/ RunEnds \/ SleepEnds

SpecRetry == InitRetry /\ [][NextRetry]_vars

-----------------------------------------------------------------------------
(* parse_extensions_toml called once, on a list of paths drawn from the    *)
(* universe of inputs.                                                     *)

MaxParseInputs == 3    \* paths passed to parse_extensions_toml

\* The [extensions] tables and [[mod]] lists of the valid files.
InputUniverse ==
    { [path |-> "a.toml", kind |-> "missing", metadata |-> <<>>,
       mods |-> <<>>],
      [path |-> "b.toml", kind |-> "unparseable", metadata |-> <<>>,
       mods |-> <<>>],
      [path |-> "c.toml", kind |-> "valid", metadata |-> "name" :> "Opti",
       mods |-> <<"name" :> "Sodium" @@ "fabric" :> <<<<"1.20.1", U1>>>>>>],
      [path |-> "d.toml", kind |-> "valid", metadata |-> <<>>,
       mods |-> <<"fabric" :> <<<<"1.20.1", U2>>>>,
                  "name" :> "Sodium" @@ "quilt" :> <<<<"1.20.1", U1>>>>>>],
      [path |-> "e.toml", kind |-> "odd_metadata", metadata |-> <<>>,
       mods |-> <<>>] }

InitParse ==
    /\ \E n \in 0..MaxParseInputs : toml_paths \in SeqsOfLen(InputUniverse, n)
    /\ mainpc = "call_parse"
    /\ mi = 0
    /\ warnings = <<>>
    /\ effects = <<>>
    /\ version_paths = <<>>
    /\ exporting = {}
    /\ failed_exports = <<>>
    /\ extensions = <<>>
    /\ merged = NotYet
    /\ merged_again = NotYet
    /\ mpc = "idle"
    /\ RetryIdle
    /\ UtilsIdle
    /\ PoolIdle

\* Lines 56-88: parse_extensions_toml(toml_paths) runs and returns.
ParseCall ==
    /\ mainpc = "call_parse"
    /\ extensions' = parse_extensions_toml(toml_paths)
    /\ warnings' = ParseWarnings(toml_paths)
    /\ mainpc' = "parse_returned"
    /\ UNCHANGED <<toml_paths, mi, effects, version_paths, exporting,
                   failed_exports, merged, merged_again, mpc, retryVars,
                   utilsVars, poolVars>>

NextParse == ParseCall

SpecParse == InitParse /\ [][NextParse]_vars

-----------------------------------------------------------------------------
(* The build flow from the merge on (main, lines 563-566): the descriptor   *)
(* is drawn from a small universe, merged, planned against the directories *)
(* that exist, and installed by the worker pool.                           *)

MaxBuildMods == 2    \* [[mod]] tables of the descriptor
MaxCurrency == 2     \* the largest currency argument

BaseDir == "build/ext"

BuildEntryUniverse ==
    { n @@ c : n \in NameUniverse,
               c \in { "fabric" :> <<<<"1.20.1", U1>>>>,
                       "forge" :> <<<<"1.19.2", U2>>>> } }

DirUniverse ==
    { PathJoin(PathJoin(BaseDir, "fabric"), "1.20.1"),
      PathJoin(PathJoin(BaseDir, "forge"), "1.19.2") }

Init ==
    /\ \E n \in 0..MaxBuildMods :
         \E es \in SeqsOfLen(BuildEntryUniverse, n) :
            extensions = <<[mods |-> es]>>
    /\ merged = NotYet
    /\ merged_again = NotYet
    /\ mpc = "start"
    /\ RetryIdle
    /\ UtilsIdle
    /\ MainIdle
    /\ dirs \in SUBSET DirUniverse
    /\ currency \in 1..MaxCurrency
    /\ tasks = NotYet
    /\ apc = "plan"
    /\ futures = <<>>
    /\ early = {}
    /\ yieldq = <<>>
    /\ done_order = <<>>
    /\ completed = 0
    /\ progress = <<>>
    /\ failed = EmptyDict
    /\ report = NotYet

keepPool == <<dirs, currency>>

\* Lines 409-437: the tasks are planned; without any, {} is returned.
Plan ==
    /\ mpc = "merged"
    /\ apc = "plan"
    /\ tasks' = PlanTasks(dirs, BaseDir, <<>>, merged)
    /\ IF tasks' = <<>>
       THEN apc' = "returned" /\ report' = EmptyDict
       ELSE apc' = "submit" /\ report' = report
    /\ UNCHANGED <<mainVars, utilsVars, keepPool, early, futures, yieldq, done_order, completed, progress,
                   failed, mergeVars, retryVars>>

\* Line 447: executor.submit(install_task, task), task after task.
Submit ==
    /\ apc = "submit"
    /\ Len(futures) < Len(tasks)
    /\ futures' = Append(futures,
                         [st |-> "queued", call |-> NewCall(DefaultMaxRetries)])
    /\ UNCHANGED <<mainVars, utilsVars, keepPool, early, tasks, apc, yieldq, done_order, completed,
                   progress, failed, report, mergeVars, retryVars>>

\* Line 449: the loop asks as_completed for its first future.  The futures
\* already finished are yielded first, in the iteration order of a set of
\* futures; every other future is queued as it finishes.
StartCollect ==
    /\ apc = "submit"
    /\ Len(futures) = Len(tasks)
    /\ early' = InState(futures, "finished")
    /\ yieldq' \in Orders(early')
    /\ apc' = "collect"
    /\ UNCHANGED <<mainVars, utilsVars, keepPool, tasks, futures, done_order, completed, progress,
                   failed, report, mergeVars, retryVars>>

\* The state of the pool after future i moved to frame c.
Settle(i, c) ==
    /\ futures' = [futures EXCEPT ![i] = FutureAt(c)]
    /\ done_order' = IF Ended(c) THEN Append(done_order, i) ELSE done_order
    /\ yieldq' = IF Ended(c) /\ apc = "collect"
                 THEN Append(yieldq, i) ELSE yieldq
    /\ UNCHANGED <<mainVars, utilsVars, keepPool, early, tasks, apc, completed, progress, failed, report,
                   mergeVars, retryVars>>

\* A worker of the pool (at most `currency` threads) takes the oldest queued
\* work item and calls install_task (lines 439-444), which enters
\* add_mod_to_version.
WorkerTakes ==
    \E i \in InState(futures, "queued") :
        /\ \A j \in InState(futures, "queued") : i <= j
        /\ Cardinality(InState(futures, "running")) < currency
        /\ Settle(i, Enter(futures[i].call, tasks[i].version_path \in dirs))

\* The invocation of a running task ends.
WorkerRunEnds ==
    \E i \in InFlight(futures), o \in Outcomes :
        Settle(i, Finish(futures[i].call, o))

\* The backoff sleep of a running task ends.
WorkerWakes ==
    \E i \in InState(futures, "running") :
        /\ futures[i].call.pc = "sleep"
        /\ Settle(i, Wake(futures[i].call))

\* Lines 449-467: one turn of the loop, on the next future as_completed yields.
Collect ==
    /\ apc = "collect"
    /\ yieldq # <<>>
    /\ LET i == Head(yieldq)
           c == futures[i].call
       IN  IF c.pc = "raised"
           THEN /\ apc' = "raised"
                /\ UNCHANGED <<mainVars, utilsVars, completed, progress, failed>>
           ELSE /\ completed' = completed + 1
                /\ progress' = Append(progress, <<completed', i, c.result[1]>>)
                /\ failed' = AfterOutcome(failed, tasks[i], c.result[1])
                /\ apc' = apc
    /\ yieldq' = Tail(yieldq)
    /\ UNCHANGED <<mainVars, utilsVars, keepPool, early, tasks, futures, done_order, report, mergeVars,
                   retryVars>>

\* Line 469: every future was yielded; return dict(failed).
Return ==
    /\ apc = "collect"
    /\ completed = Len(tasks)
    /\ report' = failed
    /\ apc' = "returned"
    /\ UNCHANGED <<mainVars, utilsVars, keepPool, early, tasks, futures, yieldq, done_order, completed,
                   progress, failed, mergeVars, retryVars>>

Next ==
    \/ MergeCall
    \/ Plan
    \/ Submit
    \/ StartCollect
    \/ WorkerTakes
    \/ WorkerRunEnds
    \/ WorkerWakes
    \/ Collect
    \/ Return

Spec == Init /\ [][Next]_vars

-----------------------------------------------------------------------------
(* The flows of utils.py: one call of update_modpacks, of export_modpacks  *)
(* or of install_resources, on inputs drawn from a small universe.         *)

MaxPaths == 2        \* version directories passed to update / export
MaxResources == 2    \* resource files passed to install_resources

RepoDir == "repo"

TargetPath == "versions/forge/1.20.1"

PathUniverse ==
    {"versions/fabric/1.20.1", "versions/fabric/1.19.2", "versions/fabric/1.18.2"}

FileUniverse ==
    {<<"sodium", ".pw.toml">>, <<"iris", ".pw.toml">>, <<"optifine", ".jar">>}

ListingUniverse == {<<"sodium", ".pw.toml">>, <<"notes", ".txt">>}

\* The duplicate-free sequences over S of length at most n.
DistinctSeqs(S, n) ==
    UNION {Orders(T) : T \in {X \in SUBSET S : Cardinality(X) <= n}}

InitDirectoryFlow ==
    /\ flow \in {"update", "export"}
    /\ paths \in DistinctSeqs(PathUniverse, MaxPaths)
    /\ old_packs \in SUBSET PathUniverse
    /\ idx = 1
    /\ apc = IF flow = "export" THEN "cleanup" ELSE "loop"
    /\ currency = 4
    /\ target_is_dir = FALSE /\ resource_list = <<>> /\ present = {}

InitSyncFlow ==
    /\ flow = "sync"
    /\ target_is_dir \in BOOLEAN
    /\ resource_list \in DistinctSeqs(FileUniverse, MaxResources)
    /\ present \in SUBSET ListingUniverse
    /\ currency \in 1..MaxCurrency
    /\ apc = "entry"
    /\ paths = <<>> /\ old_packs = {} /\ idx = 0

InitUtils ==
    /\ MergeIdle
    /\ RetryIdle
    /\ MainIdle
    /\ InitDirectoryFlow \/ InitSyncFlow
    /\ cwd = RepoDir
    /\ original_dir = ""
    /\ children = {}
    /\ ulog = <<>>
    /\ dirs = {} /\ tasks = <<>> /\ futures = <<>> /\ early = {}
    /\ yieldq = <<>> /\ done_order = <<>> /\ completed = 0
    /\ progress = <<>> /\ failed = <<>> /\ report = <<>>

keepInputs == <<paths, target_is_dir, resource_list, present, currency, dirs,
                flow, mergeVars, retryVars, mainVars>>

keepSyncPool == <<tasks, futures, early, yieldq, done_order, completed,
                  progress, failed, report>>

\* update_modpacks, lines 107-114: the next path; chdir into it and run the tool.
UpdateBegin ==
    /\ flow = "update" /\ apc = "loop" /\ idx <= Len(paths)
    /\ original_dir' = cwd
    /\ cwd' = paths[idx]
    /\ children' = children \cup {Spawned(Cardinality(children) + 1, cwd')}
    /\ apc' = AfterSpawn
    /\ UNCHANGED <<idx, ulog, old_packs, keepInputs, keepSyncPool>>

\* update_modpacks, lines 114-118: the tool exits (with any exit code) or
\* subprocess.run raises; the finally clause restores the directory.
UpdateEnd ==
    /\ flow = "update" /\ apc = "wait"
    /\ \E c \in children, o \in {"zero", "nonzero", "error"} :
         /\ children' = children \ {c}
         /\ cwd' = RestoredDirectory(original_dir, cwd)
         /\ IF o = "error"
            THEN apc' = "raised" /\ UNCHANGED <<idx, ulog>>
            ELSE /\ apc' = "loop"
                 /\ idx' = idx + 1
                 /\ ulog' = Append(ulog, <<paths[idx], o, "Completed">>)
    /\ UNCHANGED <<original_dir, old_packs, keepInputs, keepSyncPool>>

\* update_modpacks: the loop is over.
UpdateReturn ==
    /\ flow = "update" /\ apc = "loop" /\ idx > Len(paths)
    /\ apc' = "returned"
    /\ UNCHANGED <<cwd, original_dir, idx, children, ulog, old_packs,
                   keepInputs, keepSyncPool>>

\* export_modpacks, lines 86-88: cleanup_old_packs on every path.
ExportCleanup ==
    /\ flow = "export" /\ apc = "cleanup"
    /\ old_packs' = old_packs \ {paths[i] : i \in DOMAIN paths}
    /\ apc' = "loop"
    /\ UNCHANGED <<cwd, original_dir, idx, children, ulog, keepInputs,
                   keepSyncPool>>

\* run_command_in_dir, lines 48-51: chdir into the path and os.system.
ExportBegin ==
    /\ flow = "export" /\ apc = "loop" /\ idx <= Len(paths)
    /\ original_dir' = cwd
    /\ cwd' = paths[idx]
    /\ children' = children \cup {Spawned(Cardinality(children) + 1, cwd')}
    /\ apc' = AfterSpawn
    /\ UNCHANGED <<idx, ulog, old_packs, keepInputs, keepSyncPool>>

\* run_command_in_dir, lines 51-53: os.system returns the status, which is
\* dropped; the finally clause restores the directory.
ExportEnd ==
    /\ flow = "export" /\ apc = "wait"
    /\ \E c \in children, o \in {"zero", "nonzero"} :
         /\ children' = children \ {c}
         /\ ulog' = Append(ulog, <<paths[idx], o, "">>)
    /\ cwd' = RestoredDirectory(original_dir, cwd)
    /\ apc' = "loop"
    /\ idx' = idx + 1
    /\ UNCHANGED <<original_dir, old_packs, keepInputs, keepSyncPool>>

\* export_modpacks: the loop is over.
ExportReturn ==
    /\ flow = "export" /\ apc = "loop" /\ idx > Len(paths)
    /\ apc' = "returned"
    /\ UNCHANGED <<cwd, original_dir, idx, children, ulog, old_packs,
                   keepInputs, keepSyncPool>>

\* Lines 48-53 and 111-116: os.chdir(path) raises (the path is no directory
\* any more); the finally clause runs os.chdir(original_dir) and the exception
\* leaves the function.
ChdirFails ==
    /\ flow \in {"update", "export"} /\ apc = "loop" /\ idx <= Len(paths)
    /\ original_dir' = cwd
    /\ cwd' = RestoredDirectory(original_dir', cwd)
    /\ apc' = "raised"
    /\ UNCHANGED <<idx, children, ulog, old_packs, keepInputs, keepSyncPool>>

\* install_resources, lines 194-230: the directory check, the dedupe, and,
\* when something is left, the chdir into the target and the pool.
SyncEnter ==
    /\ flow = "sync" /\ apc = "entry"
    /\ LET left == Dedupe(resource_list, get_resources(present))
       IN  IF ~target_is_dir \/ left = <<>>
           THEN /\ apc' = "returned"
                /\ report' = <<>>
                /\ UNCHANGED <<cwd, original_dir, tasks>>
           ELSE /\ apc' = "submit"
                /\ tasks' = left
                /\ original_dir' = cwd
                /\ cwd' = TargetPath
                /\ report' = report
    /\ UNCHANGED <<idx, children, ulog, old_packs, keepInputs, futures, early,
                   yieldq, done_order, completed, progress, failed>>

\* Lines 232-234: executor.submit(install_single_mod, mod), mod after mod.
SyncSubmit ==
    /\ flow = "sync" /\ apc = "submit"
    /\ Len(futures) < Len(tasks)
    /\ futures' = Append(futures, [st |-> "queued", result |-> Installed,
                                   invoked |-> 0])
    /\ UNCHANGED <<mainVars, utilsVars, keepPool, mergeVars, retryVars, tasks, apc, early,
                   yieldq, done_order, completed, progress, failed, report>>

\* Line 237: as_completed is asked for its first future.
SyncStartCollect ==
    /\ flow = "sync" /\ apc = "submit"
    /\ Len(futures) = Len(tasks)
    /\ early' = InState(futures, "finished")
    /\ yieldq' \in Orders(early')
    /\ apc' = "collect"
    /\ UNCHANGED <<mainVars, utilsVars, keepPool, mergeVars, retryVars, tasks, futures,
                   done_order, completed, progress, failed, report>>

\* Future i finished with the value r.  (invoked counts the subprocess.run
\* calls made for the resource.)
SyncSettle(i, r) ==
    /\ futures' = [futures EXCEPT ![i].st = "finished", ![i].result = r]
    /\ done_order' = Append(done_order, i)
    /\ yieldq' = IF apc = "collect" THEN Append(yieldq, i) ELSE yieldq

\* A worker (at most max_workers threads) takes the oldest queued resource
\* and calls install_single_mod (lines 206-218): a resource that is no
\* .pw.toml is returned as failed at once, for another the tool is started in
\* the current directory of the process.
SyncWorkerTakes ==
    /\ flow = "sync"
    /\ \E i \in InState(futures, "queued") :
         /\ \A j \in InState(futures, "queued") : i <= j
         /\ Cardinality(InState(futures, "running"))
                < max_workers(currency, Len(tasks))
         /\ IF NeedsTool(tasks[i])
            THEN /\ futures' = [futures EXCEPT ![i].st = "running",
                                                ![i].invoked = @ + 1]
                 /\ children' = children \cup {Spawned(i, cwd)}
                 /\ UNCHANGED <<done_order, yieldq>>
            ELSE /\ SyncSettle(i, tasks[i])
                 /\ UNCHANGED children
    /\ UNCHANGED <<cwd, original_dir, idx, ulog, old_packs, keepInputs, tasks,
                   apc, early, completed, progress, failed, report>>

\* Lines 212-223: the invocation of a running resource ends.
SyncWorkerEnds ==
    /\ flow = "sync"
    /\ \E i \in InState(futures, "running"), o \in Outcomes :
         /\ SyncSettle(i, InstallResult(tasks[i], o))
         /\ children' = {c \in children : c.id # i}
    /\ UNCHANGED <<cwd, original_dir, idx, ulog, old_packs, keepInputs, tasks,
                   apc, early, completed, progress, failed, report>>

\* Lines 237-244: one turn of the collecting loop.
SyncCollect ==
    /\ flow = "sync" /\ apc = "collect"
    /\ yieldq # <<>>
    /\ LET i == Head(yieldq)
           result == futures[i].result
       IN  /\ completed' = completed + 1
           /\ progress' = Append(progress, <<completed', i, result = Installed>>)
           /\ failed' = IF result # Installed THEN Append(failed, result)
                        ELSE failed
    /\ yieldq' = Tail(yieldq)
    /\ UNCHANGED <<mainVars, utilsVars, keepPool, mergeVars, retryVars, tasks, apc,
                   futures, early, done_order, report>>

\* Lines 246-249: the finally clause restores the directory; failed_mods is
\* returned.
SyncReturn ==
    /\ flow = "sync" /\ apc = "collect"
    /\ completed = Len(tasks)
    /\ cwd' = RestoredDirectory(original_dir, cwd)
    /\ report' = failed
    /\ apc' = "returned"
    /\ UNCHANGED <<original_dir, idx, children, ulog, old_packs, keepInputs,
                   tasks, futures, early, yieldq, done_order, completed,
                   progress, failed>>

NextUtils ==
    \/ UpdateBegin
    \/ UpdateEnd
    \/ UpdateReturn
    \/ ExportCleanup
    \/ ExportBegin
    \/ ExportEnd
    \/ ExportReturn
    \/ ChdirFails
    \/ SyncEnter
    \/ SyncSubmit
    \/ SyncStartCollect
    \/ SyncWorkerTakes
    \/ SyncWorkerEnds
    \/ SyncCollect
    \/ SyncReturn

SpecUtils == InitUtils /\ [][NextUtils]_vars

-----------------------------------------------------------------------------
(* The two flows that hand their work to a thread pool, side by side: a    *)
(* run is either the build flow (add_mods_to_versions) or a call of a      *)
(* function of utils.py (install_resources among them).  A step of the     *)
(* build flow is taken in a run of the build flow only; the steps of       *)
(* utils.py name their flow themselves.                                    *)

InitPools == Init \/ InitUtils

NextPools ==
    \/ flow = "idle" /\ MergeCall
    \/ flow = "idle" /\ Plan
    \/ flow = "idle" /\ Submit
    \/ flow = "idle" /\ StartCollect
    \/ flow = "idle" /\ WorkerTakes
    \/ flow = "idle" /\ WorkerRunEnds
    \/ flow = "idle" /\ WorkerWakes
    \/ flow = "idle" /\ Collect
    \/ flow = "idle" /\ Return
    \/ UpdateBegin
    \/ UpdateEnd
    \/ UpdateReturn
    \/ ExportCleanup
    \/ ExportBegin
    \/ ExportEnd
    \/ ExportReturn
    \/ ChdirFails
    \/ SyncEnter
    \/ SyncSubmit
    \/ SyncStartCollect
    \/ SyncWorkerTakes
    \/ SyncWorkerEnds
    \/ SyncCollect
    \/ SyncReturn

SpecPools == InitPools /\ [][NextPools]_vars

-----------------------------------------------------------------------------
(* add_mods_to_versions under its scheduling: a step of the call that can  *)
(* be taken is taken.  The main thread goes on while it can, an idle       *)
(* worker thread of the pool takes queued work, time.sleep returns, and    *)
(* every external invocation returns or reaches its timeout of 300 seconds *)
(* (subprocess.run, lines 370-377).  No step of the call can be repeated,  *)
(* so weak fairness of the steps together lets no thread wait forever      *)
(* while it could go on.                                                   *)

\* A step of add_mods_to_versions or of one of its workers.
AddModsStep ==
    \/ Plan
    \/ Submit
    \/ StartCollect
    \/ WorkerTakes
    \/ WorkerRunEnds
    \/ WorkerWakes
    \/ Collect
    \/ Return

Fairness == WF_vars(AddModsStep)

SpecFair == Spec /\ Fairness

-----------------------------------------------------------------------------
(* build_extensions.main: a build from the command line on.  The phases of *)
(* main are its steps; between the merge and the version suffix the steps  *)
(* of add_mods_to_versions and of its workers run (MergeCall, Plan, ...,   *)
(* Return).  dirs are the version directories of the build directory once  *)
(* the template is copied and overlaid.                                    *)

MaxTomlPaths == 2    \* descriptor paths on the command line

\* The descriptors that have a versions/ directory with files next to them
\* (overlay_extension_files, lines 228-242).
OverlaySources == {"c.toml", "e.toml"}

InitMain ==
    /\ \E n \in 1..MaxTomlPaths : toml_paths \in SeqsOfLen(InputUniverse, n)
    /\ mainpc = "start"
    /\ mi = 0
    /\ warnings = <<>>
    /\ effects = <<>>
    /\ version_paths = <<>>
    /\ exporting = {}
    /\ failed_exports = <<>>
    /\ extensions = <<>>
    /\ merged = NotYet
    /\ merged_again = NotYet
    /\ mpc = "idle"
    /\ RetryIdle
    /\ UtilsIdle
    /\ dirs \in SUBSET DirUniverse
    /\ currency \in 1..MaxCurrency
    /\ tasks = NotYet
    /\ apc = "plan"
    /\ futures = <<>>
    /\ early = {}
    /\ yieldq = <<>>
    /\ done_order = <<>>
    /\ completed = 0
    /\ progress = <<>>
    /\ failed = EmptyDict
    /\ report = NotYet

keepMain == <<toml_paths, utilsVars, retryVars, poolVars>>

\* Lines 527-534: os.makedirs(args.output), then parse_extensions_toml.
MainParse ==
    /\ mainpc = "start"
    /\ effects' = Append(effects, <<"makedirs">>)
    /\ extensions' = parse_extensions_toml(toml_paths)
    /\ warnings' = ParseWarnings(toml_paths)
    /\ mainpc' = "parsed"
    /\ UNCHANGED <<keepMain, mi, version_paths, exporting, failed_exports,
                   merged, merged_again, mpc>>

\* Lines 536-551: without an extension main returns; the name of the build
\* is merged from the metadata.
MainCheck ==
    /\ mainpc = "parsed"
    /\ mainpc' = IF Fatal(extensions) THEN "returned"
                 ELSE IF NameRaises(extensions) THEN "raised"
                 ELSE "copy"
    /\ UNCHANGED <<keepMain, mi, warnings, effects, version_paths, exporting,
                   failed_exports, mergeVars>>

\* Line 554, copy_versions (lines 203-212): an existing target is removed,
\* then the template is copied; shutil raises when it cannot.
MainCopy ==
    /\ mainpc = "copy"
    /\ \E existed \in BOOLEAN, copied \in BOOLEAN :
         /\ effects' = effects
                \o (IF existed THEN <<<<"rmtree">>>> ELSE <<>>)
                \o (IF copied THEN <<<<"copytree">>>> ELSE <<>>)
         /\ mainpc' = IF copied THEN "overlay" ELSE "raised"
    /\ mi' = 1
    /\ UNCHANGED <<keepMain, warnings, version_paths, exporting,
                   failed_exports, mergeVars>>

\* Lines 557-558, overlay_extension_files (lines 215-256): the versions/
\* directory next to the descriptor is copied over the build directory when it
\* exists and holds files; an exception is caught.  After the last extension
\* main goes on to merge_mods (line 561).
MainOverlay ==
    /\ mainpc = "overlay"
    /\ mi <= Len(extensions)
    /\ effects' = IF extensions[mi].source_file \in OverlaySources
                  THEN Append(effects,
                              <<"overlay", extensions[mi].source_file>>)
                  ELSE effects
    /\ mi' = mi + 1
    /\ IF mi = Len(extensions)
       THEN mainpc' = "install" /\ mpc' = "start"
       ELSE mainpc' = mainpc /\ mpc' = mpc
    /\ UNCHANGED <<keepMain, warnings, version_paths, exporting,
                   failed_exports, extensions, merged,
                   merged_again>>

\* A main that goes on as soon as add_mods_to_versions is called.
AddModsCalled == TRUE

\* Line 566: the call of add_mods_to_versions has returned.
AddModsReturned == apc = "returned"

\* Line 570, update_pack_versions (lines 259-327), once add_mods_to_versions
\* has returned: the pack.toml of every version directory that has one with
\* a version line is rewritten; an exception on a file is caught.
MainSuffix ==
    /\ mainpc = "install"
    /\ AddModsReturned
    /\ \E rewritten \in SUBSET dirs :
         effects' = Append(effects, <<"manifest", rewritten>>)
    /\ mainpc' = "export"
    /\ UNCHANGED <<keepMain, mi, warnings, version_paths, exporting,
                   failed_exports, mergeVars>>

\* Line 573, export_modpacks (lines 481-497): the version directories are
\* listed in the order of os.listdir; without any, [] is returned.
MainExportList ==
    /\ mainpc = "export"
    /\ version_paths' \in Orders(dirs)
    /\ mi' = 1
    /\ mainpc' = IF dirs = {} THEN "summary" ELSE "exporting"
    /\ UNCHANGED <<keepMain, warnings, effects, exporting, failed_exports,
                   mergeVars>>

\* Lines 498-509: the export of the next path is started, with cwd = path.
MainExportBegin ==
    /\ mainpc = "exporting"
    /\ exporting = {}
    /\ mi <= Len(version_paths)
    /\ exporting' = {version_paths[mi]}
    /\ effects' = Append(effects, <<"export", version_paths[mi]>>)
    /\ UNCHANGED <<keepMain, mainpc, mi, warnings, version_paths,
                   failed_exports, mergeVars>>

\* Lines 510-517: the export ends; the path is printed with its mark, and a
\* path whose export did not exit with code 0 is appended to failed.
MainExportEnd ==
    /\ mainpc = "exporting"
    /\ exporting # {}
    /\ \E o \in Outcomes :
         /\ failed_exports' = IF o = "zero" THEN failed_exports
                              ELSE Append(failed_exports, version_paths[mi])
         /\ effects' = Append(effects,
                              <<"exported", version_paths[mi], o = "zero">>)
    /\ exporting' = {}
    /\ mi' = mi + 1
    /\ mainpc' = IF mi = Len(version_paths) THEN "summary" ELSE mainpc
    /\ UNCHANGED <<keepMain, warnings, version_paths, mergeVars>>

\* Lines 575-596: the summary is printed and main returns.
MainSummary ==
    /\ mainpc = "summary"
    /\ mainpc' = "returned"
    /\ UNCHANGED <<keepMain, mi, warnings, effects, version_paths, exporting,
                   failed_exports, mergeVars>>

NextMain ==
    \/ MainParse
    \/ MainCheck
    \/ MainCopy
    \/ MainOverlay
    \/ MergeCall
    \/ Plan
    \/ Submit
    \/ StartCollect
    \/ WorkerTakes
    \/ WorkerRunEnds
    \/ WorkerWakes
    \/ Collect
    \/ Return
    \/ MainSuffix
    \/ MainExportList
    \/ MainExportBegin
    \/ MainExportEnd
    \/ MainSummary

SpecMain == InitMain /\ [][NextMain]_vars

-----------------------------------------------------------------------------
(* What the descriptors define, read off the input alone.                  *)

Recognized == {LoaderList[i] : i \in DOMAIN LoaderList}

\* The mod entry a site <<i, j>> names: the j-th entry of the i-th descriptor.
Sites(exts) ==
    UNION { {<<i, j>> : j \in DOMAIN exts[i].mods} : i \in DOMAIN exts }

EntryAt(exts, p) == exts[p[1]].mods[p[2]]

\* The triples with a recognized loader that a mod entry defines.
TriplesOfMod(mod) ==
    UNION { {<<ModName(mod), l, mod[l][k][1]>> : k \in DOMAIN mod[l]} :
            l \in (DOMAIN mod) \cap Recognized }

DefinedTriples(exts) ==
    UNION { TriplesOfMod(EntryAt(exts, p)) : p \in Sites(exts) }

DefSites(exts, t) ==
    { p \in Sites(exts) : t \in TriplesOfMod(EntryAt(exts, p)) }

UrlAtSite(exts, p, t) == DictGet(EntryAt(exts, p)[t[2]], t[3])

\* Site p is processed after site q.
Later(p, q) == p[1] > q[1] \/ (p[1] = q[1] /\ p[2] > q[2])

LastOf(S) == CHOOSE p \in S : \A q \in S : q = p \/ Later(p, q)

\* The (triple, url) slots of a merged list: entry i, loader l, position k.
ResultSlots(result) ==
    UNION { UNION { {<<i, l, k>> : k \in DOMAIN DictGet(result[i], l)} :
                    l \in DictKeys(result[i]) \ {"name"} } :
            i \in DOMAIN result }

SlotTriple(result, s) ==
    <<DictGet(result[s[1]], "name"), s[2],
      DictGet(result[s[1]], s[2])[s[3]][1]>>

SlotUrl(result, s) == DictGet(result[s[1]], s[2])[s[3]][2]

SlotsOf(result, t) == {s \in ResultSlots(result) : SlotTriple(result, s) = t}

\* C1: after merge_mods, every triple some descriptor defines has exactly one
\* URL in the result, and it is the URL of the triple's last definition in
\* processing order (descriptors in input order, entries in file order).
C1_LastDefinitionWins ==
    mpc = "merged" =>
        \A t \in DefinedTriples(extensions) :
            /\ Cardinality(SlotsOf(merged, t)) = 1
            /\ \A s \in SlotsOf(merged, t) :
                 SlotUrl(merged, s) =
                     UrlAtSite(extensions, LastOf(DefSites(extensions, t)), t)

\* A triple defined three times, the last URL differing from the first two.
C1_Witness ==
    /\ mpc = "merged"
    /\ \E t \in DefinedTriples(extensions) :
         LET S == DefSites(extensions, t)
         IN  /\ Cardinality(S) = 3
             /\ \A p \in S \ {LastOf(S)} :
                  UrlAtSite(extensions, p, t)
                      # UrlAtSite(extensions, LastOf(S), t)
             /\ \E s \in SlotsOf(merged, t) :
                  SlotUrl(merged, s) = UrlAtSite(extensions, LastOf(S), t)

\* The (loader, version) pairs a descriptor defines for a mod name.
PairsInExt(exts, i, name) ==
    { <<t[2], t[3]>> : t \in { u \in DefinedTriples(<<exts[i]>>) : u[1] = name } }

PairsInResult(result, name) ==
    { <<SlotTriple(result, s)[2], SlotTriple(result, s)[3]>> :
        s \in { r \in ResultSlots(result) : SlotTriple(result, r)[1] = name } }

NamesIn(exts) == { t[1] : t \in DefinedTriples(exts) }

\* C2: overriding is per triple.  A triple of descriptor i that no later
\* descriptor defines keeps descriptor i's URL, whatever else later descriptors
\* define for the same mod name, and the pairs merged under a mod name are the
\* union of the pairs of all descriptors.
C2_PerTripleOverride ==
    mpc = "merged" =>
        /\ \A i \in DOMAIN extensions :
             \A t \in DefinedTriples(<<extensions[i]>>) :
                (\A j \in DOMAIN extensions :
                    j > i => t \notin DefinedTriples(<<extensions[j]>>))
                => \E s \in SlotsOf(merged, t) :
                      SlotUrl(merged, s) =
                          UrlAtSite(<<extensions[i]>>,
                                    LastOf(DefSites(<<extensions[i]>>, t)), t)
        /\ \A name \in NamesIn(extensions) :
             PairsInResult(merged, name) =
                 UNION { PairsInExt(extensions, i, name) :
                         i \in DOMAIN extensions }

\* Two descriptors give one mod name different pairs, the later one also
\* overriding another triple of that mod, and the earlier pair is kept.
C2_Witness ==
    /\ mpc = "merged"
    /\ Len(extensions) = 2
    /\ \E name \in NamesIn(extensions) :
         \E a \in PairsInExt(extensions, 1, name) :
            /\ a \notin PairsInExt(extensions, 2, name)
            /\ PairsInExt(extensions, 2, name) \ PairsInExt(extensions, 1, name) # {}
            /\ PairsInExt(extensions, 2, name) \cap PairsInExt(extensions, 1, name) # {}
            /\ a \in PairsInResult(merged, name)

-----------------------------------------------------------------------------
(* More claims about merge_mods (SpecMerge).                               *)

\* The loaders the specification recognizes.
KnownLoaders == {"fabric", "forge", "neoforge"}

\* The mod names of a merged list.
ResultNames(result) == {DictGet(result[i], "name") : i \in DOMAIN result}

\* The entries of the descriptors that define no known loader.
LoaderlessSites(exts) ==
    {p \in Sites(exts) : (DOMAIN EntryAt(exts, p)) \cap KnownLoaders = {}}

\* C17: every key of a merged entry other than "name" is a known loader, so
\* every merged triple has a known loader; every merged entry holds a triple;
\* and the merged names are the names under which some entry defines a triple
\* of a known loader, so an entry without one adds no name of its own.
C17_UnknownLoadersIgnored ==
    mpc = "merged" =>
        /\ \A i \in DOMAIN merged :
             /\ DictKeys(merged[i]) \ {"name"} \subseteq KnownLoaders
             /\ \E s \in ResultSlots(merged) : s[1] = i
        /\ \A s \in ResultSlots(merged) :
             /\ SlotTriple(merged, s)[2] \in KnownLoaders
             /\ \E p \in Sites(extensions) :
                  SlotTriple(merged, s) \in TriplesOfMod(EntryAt(extensions, p))
        /\ \A p \in LoaderlessSites(extensions) :
             ModName(EntryAt(extensions, p)) \in ResultNames(merged)
                 <=> \E q \in Sites(extensions) \ LoaderlessSites(extensions) :
                        /\ ModName(EntryAt(extensions, q))
                               = ModName(EntryAt(extensions, p))
                        /\ TriplesOfMod(EntryAt(extensions, q)) # {}

\* A mod with only a quilt table is merged with a mod of another name that
\* has a quilt and a fabric table: the first is not in the result, the second
\* is, without its quilt table.
C17_Witness ==
    /\ mpc = "merged"
    /\ \E p \in LoaderlessSites(extensions) :
         /\ "quilt" \in DOMAIN EntryAt(extensions, p)
         /\ ModName(EntryAt(extensions, p)) \notin ResultNames(merged)
    /\ \E q \in Sites(extensions) :
         /\ {"quilt", "fabric"} \subseteq DOMAIN EntryAt(extensions, q)
         /\ ModName(EntryAt(extensions, q)) \in ResultNames(merged)

\* C20 (state part): the result of the second call equals the result of the
\* first, entry for entry and in the same order.
C20_SameResult == mpc = "merged_twice" => merged_again = merged

\* C20 (step part): a call of merge_mods leaves its argument as it was.
C20_ArgumentKept == extensions' = extensions

-----------------------------------------------------------------------------
(* Claims about add_mod_to_version (SpecRetry).                            *)

Failures == {"nonzero", "error", "timeout"}

DefaultCall == call.max_retries = 3 /\ path_is_dir

\* C3: with the default limit of 3 the attempts follow one another until the
\* first exit code 0 and none follows it: a first success at attempt k returns
\* (True, k) after k invocations; three failures of any kind return (False, 3)
\* after exactly 3 invocations.
C3_RetryUntilFirstSuccess ==
    DefaultCall =>
        /\ call.pc # "raised"
        /\ Len(outcomes) <= 3
        /\ call.invoked = Len(outcomes) + (IF call.pc = "run" THEN 1 ELSE 0)
        /\ \A k \in DOMAIN outcomes :
             outcomes[k] = "zero" =>
                /\ k = Len(outcomes)
                /\ call.pc = "returned"
                /\ call.result = <<TRUE, k>>
                /\ call.invoked = k
        /\ (Len(outcomes) = 3 /\ \A k \in DOMAIN outcomes : outcomes[k] \in Failures)
             => /\ call.pc = "returned"
                /\ call.result = <<FALSE, 3>>
                /\ call.invoked = 3
        /\ call.pc = "returned" =>
             \/ /\ call.result[1] = TRUE
                /\ call.result[2] \in DOMAIN outcomes
                /\ outcomes[call.result[2]] = "zero"
             \/ /\ call.result = <<FALSE, 3>>
                /\ Len(outcomes) = 3

\* Two failures of different kinds, then a success: (True, 3).
C3_Witness ==
    /\ DefaultCall
    /\ outcomes = <<"timeout", "nonzero", "zero">>
    /\ call.pc = "returned"
    /\ call.result = <<TRUE, 3>>

\* The attempts among the first two that failed: each is followed by a sleep.
FailedBeforeLast ==
    Cardinality({k \in DOMAIN outcomes : k < 3 /\ outcomes[k] \in Failures})

\* C4: with the default limit a backoff delay happens only between a failed
\* attempt and the next one: 1 after the first failure, 3 after the second,
\* none after the third attempt and none after a success, whatever the kind of
\* the failure.
C4_BackoffBetweenAttempts ==
    DefaultCall =>
        /\ call.slept = SubSeq(<<1, 3>>, 1, FailedBeforeLast)
        /\ call.pc = "sleep" =>
             /\ outcomes # <<>>
             /\ outcomes[Len(outcomes)] \in Failures
             /\ Len(outcomes) < 3
        /\ (outcomes # <<>> /\ outcomes[Len(outcomes)] \in Failures
            /\ Len(outcomes) < 3) => call.pc \in {"sleep", "run"}

\* Three failures of the three kinds: slept 1 and 3, and nothing after the last.
C4_Witness ==
    /\ DefaultCall
    /\ outcomes = <<"nonzero", "timeout", "error">>
    /\ call.pc = "returned"
    /\ call.slept = <<1, 3>>

\* C5: when the target directory does not exist as add_mod_to_version runs, the
\* result is failure with 0 attempts, the external tool is never invoked and
\* no backoff delay is taken.
C5_MissingDirectoryNoAttempt ==
    ~path_is_dir =>
        /\ call.pc \in {"entry", "returned"}
        /\ call.pc = "returned" => call.result = <<FALSE, 0>>
        /\ call.invoked = 0
        /\ call.slept = <<>>
        /\ outcomes = <<>>

C5_Witness ==
    /\ ~path_is_dir
    /\ call.pc = "returned"
    /\ call.result = <<FALSE, 0>>
    /\ call.invoked = 0


\* C21: for every max_retries >= 1 and every sequence of attempt outcomes, a
\* call on an existing directory never raises, returns (success, attempts) with
\* 1 <= attempts <= max_retries, and every retry that is performed finds its
\* backoff delay in the table (1, 3, 9).
C21_NeverRaisesAnyLimit ==
    (path_is_dir /\ call.max_retries >= 1) =>
        /\ call.pc # "raised"
        /\ call.pc = "returned" =>
             /\ call.result[1] \in BOOLEAN
             /\ call.result[2] \in 1..call.max_retries
        /\ Len(call.slept) <= Len(retry_delays)
        /\ call.slept = SubSeq(retry_delays, 1, Len(call.slept))
        /\ (call.pc = "run" /\ call.attempt > 0) => Len(call.slept) = call.attempt
-----------------------------------------------------------------------------
(* The order of the merged list (SpecMerge).                               *)

\* The names of a merged list, entry by entry.
NameList(result) == [i \in DOMAIN result |-> DictGet(result[i], "name")]

\* The sites at which a mod name contributes a triple of a recognized loader.
ContributingSites(exts, name) ==
    {p \in Sites(exts) : /\ ModName(EntryAt(exts, p)) = name
                         /\ TriplesOfMod(EntryAt(exts, p)) # {}}

FirstSite(S) == CHOOSE p \in S : \A q \in S : q = p \/ Later(q, p)

\* The triples a later site defines again with another URL.
Overridden(exts) ==
    {t \in DefinedTriples(exts) :
        \E p, q \in DefSites(exts, t) :
            Later(q, p) /\ UrlAtSite(exts, q, t) # UrlAtSite(exts, p, t)}

\* C24: the merged list has exactly one entry for every mod name that
\* contributes a triple of a recognized loader and no other entry; the entries
\* stand in the order in which their names first contributed a triple; and the
\* names merged from the first descriptors alone stand at the same positions
\* in the list merged from all, whatever the later descriptors override.
C24_FirstContributionOrder ==
    mpc = "merged" =>
        LET names == NameList(merged)
        IN  /\ \A i, j \in DOMAIN names : names[i] = names[j] => i = j
            /\ {names[i] : i \in DOMAIN names} = NamesIn(extensions)
            /\ \A i, j \in DOMAIN names :
                 i < j =>
                    Later(FirstSite(ContributingSites(extensions, names[j])),
                          FirstSite(ContributingSites(extensions, names[i])))
            /\ \A k \in DOMAIN extensions :
                 LET before == NameList(merge_mods(SubSeq(extensions, 1, k)))
                 IN  /\ Len(before) <= Len(names)
                     /\ before = SubSeq(names, 1, Len(before))

\* Two names are merged, and a triple of the name that stands first is
\* overridden with another URL after the second name made its first
\* contribution.
C24_Witness ==
    /\ mpc = "merged"
    /\ Len(merged) = 2
    /\ \E t \in Overridden(extensions) :
         /\ t[1] = DictGet(merged[1], "name")
         /\ Later(LastOf(DefSites(extensions, t)),
                  FirstSite(ContributingSites(extensions,
                                              DictGet(merged[2], "name"))))
-----------------------------------------------------------------------------
(* Claims about add_mods_to_versions (Spec).                               *)

\* C7: the invocations in flight at the same time have pairwise distinct
\* working directories.
C7_DistinctWorkingDirectories ==
    \A i, j \in InFlight(futures) :
        i # j => tasks[i].version_path # tasks[j].version_path

\* The directory <base>/<loader>/<version> of a triple.
TargetDir(t) == BaseDir \o "/" \o t[2] \o "/" \o t[3]

\* The planning loop of add_mods_to_versions is over.
Planned == apc \notin {"idle", "plan"}

\* The tasks planned for a triple.
TasksOf(t) ==
    {i \in DOMAIN tasks : <<tasks[i].name, tasks[i].loader, tasks[i].version>> = t}

\* C8: planning emits a task for a merged (name, loader, version, url) entry
\* if and only if <base>/<loader>/<version> exists, never a task whose target
\* directory does not exist, and exactly one task per surviving triple.
C8_PlanOnlyExistingDirectories ==
    Planned =>
        /\ \A s \in ResultSlots(merged) :
             LET t == SlotTriple(merged, s)
             IN  IF TargetDir(t) \in dirs
                 THEN /\ Cardinality(TasksOf(t)) = 1
                      /\ \A i \in TasksOf(t) :
                           /\ tasks[i].url = SlotUrl(merged, s)
                           /\ tasks[i].version_path = TargetDir(t)
                 ELSE TasksOf(t) = {}
        /\ \A i \in DOMAIN tasks :
             /\ tasks[i].version_path \in dirs
             /\ \E s \in ResultSlots(merged) : i \in TasksOf(SlotTriple(merged, s))

\* One merged triple is planned and another is dropped.
C8_Witness ==
    /\ Planned
    /\ Len(tasks) = 1
    /\ \E s \in ResultSlots(merged) : TargetDir(SlotTriple(merged, s)) \notin dirs

\* How often x occurs in the sequence q.
Occurrences(q, x) == Cardinality({k \in DOMAIN q : q[k] = x})

\* The planned tasks of mod m and group key that ended with success = false.
FailedTasks(m, key) ==
    {i \in DOMAIN tasks :
        /\ tasks[i].name = m
        /\ tasks[i].loader \o "/" \o tasks[i].version = key
        /\ futures[i].call.result[1] = FALSE}

\* C9: the returned report holds mod name m under "<loader>/<version>" as
\* many times as planned tasks (m, loader, version) ended with success =
\* false: a failed item is there, a successful one is not, and a triple
\* dropped at planning is nowhere.
C9_ReportCountsFailures ==
    apc = "returned" =>
        LET keys == DictKeys(report)
                    \cup {TargetKey : TargetKey \in
                            {t[2] \o "/" \o t[3] :
                               t \in {SlotTriple(merged, s) : s \in ResultSlots(merged)}}}
            names == {SlotTriple(merged, s)[1] : s \in ResultSlots(merged)}
                     \cup UNION {{report[k][2][j] : j \in DOMAIN report[k][2]} :
                                 k \in DOMAIN report}
        IN  \A key \in keys, m \in names :
               Occurrences(DictGetOr(report, key, <<>>), m)
                   = Cardinality(FailedTasks(m, key))

\* An item failed all three attempts and is reported under its key, and a
\* triple dropped at planning is not.
C9_Witness ==
    /\ apc = "returned"
    /\ \E i \in DOMAIN tasks :
         /\ futures[i].call.result = <<FALSE, 3>>
         /\ Occurrences(DictGetOr(report, tasks[i].loader \o "/" \o tasks[i].version,
                                  <<>>), tasks[i].name) = 1
    /\ \E s \in ResultSlots(merged) : TasksOf(SlotTriple(merged, s)) = {}

\* The tasks of the sequence `order` that failed, in that order.
FailedIn(order) == SelectSeq(order, LAMBDA i : futures[i].call.result[1] = FALSE)

KeyOf(i) == tasks[i].loader \o "/" \o tasks[i].version

\* The position of the first task of group key in the sequence q.
FirstOf(q, key) == CHOOSE a \in DOMAIN q :
                       /\ KeyOf(q[a]) = key
                       /\ \A b \in DOMAIN q : KeyOf(q[b]) = key => a <= b

\* The report lists the failures of the sequence f: its keys in the order of
\* the first failure of each group, the names of a group in the order of f.
ReportFollows(r, f) ==
    /\ DictKeys(r) = {KeyOf(f[a]) : a \in DOMAIN f}
    /\ \A a, b \in DOMAIN r :
         a < b => FirstOf(f, r[a][1]) < FirstOf(f, r[b][1])
    /\ \A a \in DOMAIN r :
         LET g == SelectSeq(f, LAMBDA i : KeyOf(i) = r[a][1])
         IN  r[a][2] = [k \in DOMAIN g |-> tasks[g[k]].name]

\* C10 as claimed: the report is ordered by the completion of the failing
\* items, under every interleaving.
C10_CompletionOrder ==
    (apc = "returned" /\ tasks # <<>>) =>
        ReportFollows(report, FailedIn(done_order))

\* The tasks in the order the collecting loop received them.
Received == [k \in DOMAIN progress |-> progress[k][2]]

PositionIn(q, i) == CHOOSE a \in DOMAIN q : q[a] = i

\* C10 as amended: the report is ordered by the order in which the loop
\* receives the failing items from as_completed; the items that finish after
\* the loop started waiting are received in completion order, after those
\* found finished at that time; without a failure the report is empty.
C10_ReceiptOrder ==
    /\ apc \in {"collect", "returned"} =>
         /\ ReportFollows(failed, FailedIn(Received))
         /\ \A a, b \in DOMAIN Received :
              /\ (Received[a] \in early /\ Received[b] \notin early) => a < b
              /\ (Received[a] \notin early /\ Received[b] \notin early /\ a < b)
                   => PositionIn(done_order, Received[a])
                          < PositionIn(done_order, Received[b])
    /\ (apc = "returned" /\ tasks # <<>>) =>
         /\ report = failed
         /\ Len(Received) = Len(tasks)
         /\ (FailedIn(Received) = <<>> => report = <<>>)

\* Two groups failed and the later failure finished while the loop waited.
C10_Witness ==
    /\ apc = "returned"
    /\ Len(report) = 2
    /\ early # DOMAIN tasks
    /\ ReportFollows(report, FailedIn(Received))

-----------------------------------------------------------------------------
(* Claims about a whole run of add_mods_to_versions.                       *)

\* The progress lines printed for task i.
LinesOf(i) == {k \in DOMAIN progress : progress[k][2] = i}

\* add_mods_to_versions has returned and every planned task has produced
\* exactly one outcome.
ReturnedComplete ==
    /\ apc = "returned"
    /\ \A i \in DOMAIN tasks : Cardinality(LinesOf(i)) = 1

\* main has reached line 566: add_mods_to_versions is called.
Called == mpc = "merged" /\ apc = "plan"

\* C11: whatever the attempts of the tasks end with (non-zero exit code,
\* exception, timeout), a call of add_mods_to_versions eventually returns with
\* exactly one outcome for every planned task, and no exception ever escapes
\* it.
C11_BatchAlwaysReturns ==
    /\ Called ~> ReturnedComplete
    /\ [](apc # "raised")

\* Returned with two tasks, the first failed in all three attempts and the
\* second successful at once.
C11_Witness ==
    /\ ReturnedComplete
    /\ Len(tasks) = 2
    /\ futures[1].call.result = <<FALSE, DefaultMaxRetries>>
    /\ futures[2].call.result = <<TRUE, 1>>

-----------------------------------------------------------------------------
(* Claims about the flows of utils.py, checked under SpecUtils.            *)

\* The directory the invocations of the running flow are meant to run in.
FlowDirectory == IF flow = "sync" THEN TargetPath ELSE paths[idx]

\* The most invocations the running flow may have in flight.
FlowWidth ==
    IF flow = "sync" THEN max_workers(currency, Len(tasks)) ELSE 1

-----------------------------------------------------------------------------
(* Claims about both pools, checked under SpecPools.                       *)

\* The work items whose worker function returned a failure.
FailedItems ==
    IF flow = "sync"
    THEN {i \in InState(futures, "finished") : futures[i].result # Installed}
    ELSE {i \in InState(futures, "finished") :
             futures[i].call.result[1] = FALSE}

\* The entries of a failure collection: the names under the keys of the dict
\* of add_mods_to_versions, the elements of the list of install_resources.
EntriesOf(f) ==
    IF flow = "sync"
    THEN DOMAIN f
    ELSE {<<k, j>> : k \in DOMAIN f, j \in 1..MaxBuildMods * Len(LoaderList)}
             \cap UNION {{<<k, j>> : j \in DOMAIN f[k][2]} : k \in DOMAIN f}

\* The work items the collecting loop has handled.
Handled == {progress[k][2] : k \in DOMAIN progress}

\* C12 (state part): the counter equals the number of progress lines, the
\* k-th line shows completed = k, no item has two lines, the failure
\* collection holds one entry per handled item that failed, and at the return
\* the counter equals the number of planned tasks.
C12_CountersState ==
    /\ completed = Len(progress)
    /\ \A k \in DOMAIN progress : progress[k][1] = k
    /\ \A a, b \in DOMAIN progress : progress[a][2] = progress[b][2] => a = b
    /\ Handled \subseteq InState(futures, "finished")
    /\ Cardinality(EntriesOf(failed)) = Cardinality(Handled \cap FailedItems)
    /\ apc = "returned" =>
         /\ completed = Len(tasks)
         /\ report = failed
         /\ Handled = DOMAIN tasks

\* C12 (step part): a step leaves the counter alone or adds one to it together
\* with one progress line, and a step of a worker (an attempt ending, a sleep
\* ending) leaves it alone.
C12_CountersStep ==
    /\ \/ completed' = completed /\ progress' = progress
       \/ completed' = completed + 1 /\ Len(progress') = Len(progress) + 1
    /\ futures' # futures => completed' = completed /\ failed' = failed

\* C12: in add_mods_to_versions and in install_resources the completion
\* counter and the failure collection never lose an update under any
\* interleaving of the workers.
C12_NoLostUpdate == []C12_CountersState /\ [][C12_CountersStep]_vars

\* Two tasks of one group ran at the same time, both failed after three
\* attempts, and both names are in the report under the one key.
C12_Witness ==
    /\ flow = "idle"
    /\ apc = "returned"
    /\ currency = 2
    /\ completed = 2
    /\ Len(report) = 1
    /\ Len(report[1][2]) = 2
    /\ \A i \in DOMAIN futures : futures[i].call.invoked = DefaultMaxRetries

\* The work items a worker thread is busy with.
Busy == InState(futures, "running")

\* The work items whose external invocation is in flight.
Invoking ==
    IF flow = "sync" THEN {c.id : c \in children} ELSE InFlight(futures)

\* C13: never more than `currency` tasks of add_mods_to_versions run at
\* once, never more than min(currency, number of items) of install_resources,
\* and an invocation in flight belongs to a task that runs.
C13_BoundedConcurrency ==
    /\ Invoking \subseteq Busy
    /\ flow = "idle" => Cardinality(Busy) <= currency
    /\ flow = "sync" =>
         /\ Cardinality(Busy) <= currency
         /\ Cardinality(Busy) <= Len(tasks)
         /\ Cardinality(children) = Cardinality(Invoking)

\* The pool of add_mods_to_versions is full: with currency 1 one invocation
\* is in flight and another task waits in the queue.
C13_Witness ==
    /\ flow = "idle"
    /\ currency = 1
    /\ Cardinality(Invoking) = 1
    /\ InState(futures, "queued") # {}

-----------------------------------------------------------------------------
(* Claims about the error handling of utils.py, checked under SpecUtils.   *)

\* C14: in the sync flow a resource is recorded as failed only after
\* DefaultMaxRetries attempts have failed (and the failure is returned, never
\* raised).
C14_SyncRetriesBeforeFailure ==
    flow = "sync" =>
        /\ apc # "raised"
        /\ \A i \in FailedItems : futures[i].invoked = DefaultMaxRetries

\* The paths whose invocation ended with a non-zero exit code.
NonZeroPaths == {ulog[k][1] : k \in {j \in DOMAIN ulog : ulog[j][2] # "zero"}}

\* C15: in the update and export flows a directory is shown as completed only
\* if its invocation exited with code 0, and the directories whose invocation
\* exited with another code are what the flow reports when it returns.
C15_NonZeroExitIsFailure ==
    flow \in {"update", "export"} =>
        /\ \A k \in DOMAIN ulog :
             ulog[k][3] = "Completed" => ulog[k][2] = "zero"
        /\ apc = "returned" =>
             {report[k] : k \in DOMAIN report} = NonZeroPaths

\* The resources of the list whose file name is not in the target folder.
NotPresent == SelectSeq(resource_list, LAMBDA m : m \notin present)

\* The work items of resource m.
ItemsOf(m) == {i \in DOMAIN tasks : tasks[i] = m}

\* C16: install_resources (on a target that is a directory) plans exactly one
\* work item for every resource whose file name is not in the target's
\* resource folder and none for the others, before anything runs; nothing is
\* ever invoked for a resource that is present; and when nothing is left, no
\* invocation is made and the current directory is not changed.
C16_DedupeBeforeExecution ==
    flow = "sync" =>
        /\ (apc # "entry" /\ target_is_dir) =>
             /\ tasks = NotPresent
             /\ \A k \in DOMAIN resource_list :
                  Cardinality(ItemsOf(resource_list[k]))
                      = IF resource_list[k] \in present THEN 0 ELSE 1
        /\ apc = "entry" => futures = <<>> /\ children = {}
        /\ \A c \in children : tasks[c.id] \notin present
        /\ \A i \in DOMAIN futures :
             futures[i].invoked <= 1 /\ tasks[i] \notin present
        /\ NotPresent = <<>> =>
             /\ futures = <<>>
             /\ children = {}
             /\ cwd = RepoDir

\* Of two resources the first is in the target already: the plan holds the
\* second alone, and its invocation is in flight.
C16_Witness ==
    /\ flow = "sync"
    /\ Len(resource_list) = 2
    /\ resource_list[1] \in present
    /\ tasks = <<resource_list[2]>>
    /\ children = {Spawned(1, TargetPath)}

-----------------------------------------------------------------------------
(* Claims about parse_extensions_toml (SpecParse) and main (SpecMain).     *)

\* An input that is an existing file and parses.
Parses(input) == input.kind \notin {"missing", "unparseable"}

\* The positions of the inputs that parse.
ParsedAt == {k \in DOMAIN toml_paths : Parses(toml_paths[k])}

\* f lists the positions of S in rising order.
RisingOnto(f, S) ==
    /\ {f[k] : k \in DOMAIN f} = S
    /\ \A a, b \in DOMAIN f : a < b => f[a] < f[b]

\* C18: parse_extensions_toml returns the descriptors of exactly the inputs
\* that are existing files and parse, in input order; every missing or
\* unparseable input is warned about and left out; and the call returns.
C18_ParsedSubsequence ==
    mainpc = "parse_returned" =>
        /\ \E f \in [DOMAIN extensions -> DOMAIN toml_paths] :
             /\ RisingOnto(f, ParsedAt)
             /\ \A k \in DOMAIN extensions :
                  /\ extensions[k].source_file = toml_paths[f[k]].path
                  /\ extensions[k].mods = toml_paths[f[k]].mods
                  /\ extensions[k].metadata = toml_paths[f[k]].metadata
        /\ \A k \in (DOMAIN toml_paths) \ ParsedAt :
             /\ \E w \in DOMAIN warnings : warnings[w] = toml_paths[k].path
             /\ \A e \in DOMAIN extensions :
                  extensions[e].source_file # toml_paths[k].path

\* An unparseable file between two valid ones: both are returned, in order.
C18_Witness ==
    /\ mainpc = "parse_returned"
    /\ Len(toml_paths) = 3
    /\ toml_paths[1].kind = "valid"
    /\ toml_paths[2].kind = "unparseable"
    /\ toml_paths[3].kind = "valid"
    /\ toml_paths[1].path # toml_paths[3].path
    /\ Len(extensions) = 2
    /\ extensions[1].source_file = toml_paths[1].path
    /\ extensions[2].source_file = toml_paths[3].path

\* The kinds of work main has done on the file system.
EffectKinds == {effects[k][1] : k \in DOMAIN effects}

\* The invocations of the external tool started so far.
ToolInvocations ==
    Cardinality({i \in DOMAIN futures : futures[i].call.invoked > 0})
        + Cardinality({k \in DOMAIN effects : effects[k][1] = "export"})

\* parse_extensions_toml has returned no descriptor.
NothingParsed == mainpc # "start" /\ extensions = <<>>

\* C19: when no descriptor parses, main stops before any work: nothing is
\* removed or copied, no overlay is applied, no external tool is invoked and
\* no pack manifest is rewritten, and main returns.
C19_NoWorkWithoutDescriptors ==
    NothingParsed =>
        /\ EffectKinds \cap {"rmtree", "copytree", "overlay", "manifest",
                             "export"} = {}
        /\ ToolInvocations = 0
        /\ futures = <<>> /\ tasks = NotYet /\ exporting = {}
        /\ mainpc \in {"parsed", "returned"}

\* Two inputs, one missing and one unparseable: main has returned, having
\* warned about both and done nothing but create the output directory.
C19_Witness ==
    /\ NothingParsed
    /\ mainpc = "returned"
    /\ Len(toml_paths) = 2
    /\ Len(warnings) = 2
    /\ toml_paths[1].kind # toml_paths[2].kind
    /\ effects = <<<<"makedirs">>>>

-----------------------------------------------------------------------------
(* The current directory of the process in the flows of utils.py           *)
(* (SpecUtils).  Every flow is entered with the current directory RepoDir. *)

\* No call that changed the directory is in progress: the flow has returned
\* or raised, or update_modpacks / export_modpacks stands between two paths.
OutsideChdir ==
    \/ apc \in {"returned", "raised"}
    \/ flow \in {"update", "export"} /\ apc \in {"loop", "cleanup"}

\* The worker pool of install_resources exists.
PoolRunning == flow = "sync" /\ apc \in {"submit", "collect"}

\* C22: the current directory is restored by every operation that changes it:
\* once install_resources, update_modpacks or run_command_in_dir has returned
\* or raised, the current directory is the one of the entry, whatever the
\* invocations did; and while the worker pool of install_resources runs, the
\* current directory is the target version directory.
C22_DirectoryRestored ==
    flow \in {"update", "export", "sync"} =>
        /\ OutsideChdir => cwd = RepoDir
        /\ PoolRunning => cwd = TargetPath
        /\ \A c \in children : flow = "sync" => c.cwd = TargetPath

\* install_resources returned a failure after its pool ran in the target
\* directory, and the directory of the entry is current again.
C22_Witness ==
    /\ flow = "sync"
    /\ apc = "returned"
    /\ original_dir = RepoDir
    /\ Len(report) >= 1
    /\ Len(done_order) >= 2
    /\ cwd = RepoDir
-----------------------------------------------------------------------------
(* The phases of build_extensions.main (SpecMain).                         *)

\* The positions of the effects of one kind in the log.
EffectAt(kind) == {k \in DOMAIN effects : effects[k][1] = kind}

\* The extensions whose versions/ files are laid over the build directory.
OverlaysDue ==
    {i \in DOMAIN extensions : extensions[i].source_file \in OverlaySources}

\* The template is copied and every overlay is made.
BuildDirectoryReady ==
    /\ EffectAt("copytree") # {}
    /\ Cardinality(EffectAt("overlay")) = Cardinality(OverlaysDue)
    /\ \A k \in EffectAt("overlay") : \E c \in EffectAt("copytree") : c < k

\* add_mods_to_versions has planned or submitted something.
InstallBegun == tasks # <<>> \/ futures # <<>>

\* Every install task is over: its function returned, its future is finished
\* and collected, and add_mods_to_versions returned.
InstallsOver ==
    /\ apc = "returned"
    /\ Len(futures) = Len(tasks)
    /\ \A i \in DOMAIN futures :
         futures[i].st = "finished" /\ Ended(futures[i].call)
    /\ InFlight(futures) = {}

\* The starts and the ends of the exports, as they happened.
ExportEvents ==
    SelectSeq(effects, LAMBDA e : e[1] \in {"export", "exported"})

\* The paths printed with the mark of a failure, in order.
FailedMarks ==
    SelectSeq(effects, LAMBDA e : e[1] = "exported" /\ ~e[3])

\* C23: the build is strictly phased.  Nothing of the install phase begins
\* before the template is copied and every overlay is made; the version suffix
\* is written to the manifests only when every install task is over; no export
\* starts before the suffix is written; the exports run one at a time, in the
\* order of discovery, and each path whose export failed is recorded exactly
\* once.
C23_StrictPhases ==
    LET events == ExportEvents
        marks == FailedMarks
        suffix == EffectAt("manifest")
    IN  /\ InstallBegun => BuildDirectoryReady
        /\ suffix # {} => InstallsOver /\ BuildDirectoryReady
        /\ exporting # {} => suffix # {}
        /\ \A k \in EffectAt("export") \cup EffectAt("exported") :
             \E s \in suffix : s < k
        /\ Cardinality(exporting) <= 1
        /\ Cardinality(suffix) <= 1
        /\ \A k \in DOMAIN events :
             /\ events[k][1] = IF k % 2 = 1 THEN "export" ELSE "exported"
             /\ (k + 1) \div 2 \in DOMAIN version_paths
             /\ events[k][2] = version_paths[(k + 1) \div 2]
        /\ exporting # {} <=> Len(events) % 2 = 1
        /\ Len(failed_exports) = Len(marks)
        /\ \A k \in DOMAIN failed_exports : failed_exports[k] = marks[k][2]
        /\ \A i, j \in DOMAIN failed_exports :
             failed_exports[i] = failed_exports[j] => i = j
        /\ mainpc \in {"summary", "returned"} /\ suffix # {}
             => Len(events) = 2 * Len(version_paths)

\* A build with an overlay, an install task that finally failed and two
\* exports, of which the first failed, has returned.
C23_Witness ==
    /\ mainpc = "returned"
    /\ EffectAt("overlay") # {}
    /\ futures # <<>>
    /\ report # EmptyDict
    /\ Len(version_paths) = 2
    /\ failed_exports = <<version_paths[1]>>
=============================================================================
